---------------------------- MODULE Spec2Model ----------------------------
(***************************************************************************)
(* Coach record store (src/server.js): an Express server that keeps the   *)
(* coach collection as one JSON array in a file and serves five REST      *)
(* endpoints over it.  Every handler reads the whole file, changes the    *)
(* collection in memory and writes the whole file back.                   *)
(*                                                                         *)
(* JavaScript values are modelled as tagged records [t, n, s]: t is the   *)
(* type tag, n the numeric payload, s the string payload.  A string is   *)
(* kept as an atom; Spelling gives its characters to the functions that   *)
(* read them (number parsing, the e-mail pattern).  Request-body fields   *)
(* range over the scalar JSON values (string, number, boolean, null) and  *)
(* "absent" (undefined).  Numbers are integers.                           *)
(***************************************************************************)
EXTENDS Integers, Sequences, FiniteSets, TLC

(***************************************************************************)
(* Bounds of the model.                                                    *)
(***************************************************************************)
\* number of ids the id generator hands out (successful Creates)
MaxCreates == 2

(***************************************************************************)
(* Program constants.                                                      *)
(***************************************************************************)
MinRating == 1
MaxRating == 5
MinTldLen == 2

(***************************************************************************)
(* JavaScript values.                                                      *)
(***************************************************************************)
Undef  == [t |-> "undefined", n |-> 0, s |-> ""]
Null   == [t |-> "null", n |-> 0, s |-> ""]
NaN    == [t |-> "nan", n |-> 0, s |-> ""]
Num(k) == [t |-> "number", n |-> k, s |-> ""]
Str(q) == [t |-> "string", n |-> 0, s |-> q]
Bool(b) == [t |-> "boolean", n |-> IF b THEN 1 ELSE 0, s |-> ""]

\* the characters of the strings that occur in the model
Spelling(q) ==
    CASE q = ""             -> <<>>
      [] q = " "            -> <<" ">>
      [] q = "3"            -> <<"3">>
      [] q = "abc"          -> <<"a", "b", "c">>
      [] q = "a@x.co"       -> <<"a", "@", "x", ".", "c", "o">>
      [] q = "A@x.co"       -> <<"A", "@", "x", ".", "c", "o">>
      [] q = "not-an-email" -> <<"n", "o", "t", "-", "a", "n", "-", "e", "m", "a", "i", "l">>
      [] q = "Ann"          -> <<"A", "n", "n">>
      [] q = "Bob"          -> <<"B", "o", "b">>
      [] q = "Yoga"         -> <<"Y", "o", "g", "a">>
      [] q = "Golf"         -> <<"G", "o", "l", "f">>
      [] q = "active"       -> <<"a", "c", "t", "i", "v", "e">>
      [] q = "inactive"     -> <<"i", "n", "a", "c", "t", "i", "v", "e">>
      [] q = "pending"      -> <<"p", "e", "n", "d", "i", "n", "g">>

\* ToBoolean, as used by `!x`, `x && y` and the spread guards
Truthy(v) ==
    CASE v.t = "undefined" -> FALSE
      [] v.t = "null"      -> FALSE
      [] v.t = "nan"       -> FALSE
      [] v.t = "boolean"   -> v.n = 1
      [] v.t = "number"    -> v.n # 0
      [] v.t = "string"    -> v.s # ""

Digits == <<"0", "1", "2", "3", "4", "5", "6", "7", "8", "9">>
IsDigit(c) == \E i \in 1..Len(Digits) : Digits[i] = c
DigitVal(c) == (CHOOSE i \in 1..Len(Digits) : Digits[i] = c) - 1
IsSpace(c) == c = " "

RECURSIVE TrimLeft(_)
TrimLeft(q) == IF q # <<>> /\ IsSpace(Head(q)) THEN TrimLeft(Tail(q)) ELSE q
RECURSIVE TrimRight(_)
TrimRight(q) ==
    IF q # <<>> /\ IsSpace(q[Len(q)]) THEN TrimRight(SubSeq(q, 1, Len(q) - 1)) ELSE q

RECURSIVE DecimalValue(_)
DecimalValue(q) ==
    IF q = <<>> THEN 0
    ELSE 10 * DecimalValue(SubSeq(q, 1, Len(q) - 1)) + DigitVal(q[Len(q)])

\* StringToNumber on integer literals: surrounding white space is dropped, the
\* empty string is 0, an optionally signed run of digits is its value, and
\* anything else is NaN
StringToNumber(q) ==
    LET w == TrimRight(TrimLeft(Spelling(q)))
        signed == w # <<>> /\ Head(w) \in {"+", "-"}
        d == IF signed THEN Tail(w) ELSE w
    IN  IF w = <<>> THEN Num(0)
        ELSE IF d # <<>> /\ \A i \in 1..Len(d) : IsDigit(d[i])
             THEN Num(IF signed /\ Head(w) = "-" THEN 0 - DecimalValue(d)
                      ELSE DecimalValue(d))
             ELSE NaN

\* ToNumber, as applied by Number(x) and by the relational operators
ToNumber(v) ==
    CASE v.t = "undefined" -> NaN
      [] v.t = "null"      -> Num(0)
      [] v.t = "nan"       -> NaN
      [] v.t = "boolean"   -> Num(v.n)
      [] v.t = "number"    -> v
      [] v.t = "string"    -> StringToNumber(v.s)

\* `v < k` and `v > k` for a number literal k: both operands go through
\* ToNumber and every comparison with NaN is false
LessThan(v, k) == LET x == ToNumber(v) IN x.t = "number" /\ x.n < k
GreaterThan(v, k) == LET x == ToNumber(v) IN x.t = "number" /\ x.n > k

\* `a === b` on scalars: same type and same value, NaN equal to nothing
StrictEquals(a, b) == a.t # "nan" /\ b.t # "nan" /\ a = b

\* the value JSON.parse gives back for what JSON.stringify wrote for v:
\* NaN is written as null, an undefined property is not written at all
JSONValue(v) == IF v.t = "nan" THEN Null ELSE v

(***************************************************************************)
(* Strings that occur in the program and in the requests.                  *)
(***************************************************************************)
Active   == Str("active")
Inactive == Str("inactive")
StatusValues == {Active, Inactive}

\* Array.prototype.includes on an array of strings (SameValueZero)
Includes(arr, v) == \E x \in arr : x = v

(***************************************************************************)
(* The documented e-mail pattern                                           *)
(*   /^[A-Z0-9._%+-]+@[A-Z0-9.-]+\.[A-Z]{2,}$/i                            *)
(***************************************************************************)
Letters == {"a", "b", "c", "d", "e", "f", "g", "i", "l", "m", "n", "o", "p", "t",
            "v", "x", "A", "B", "G", "Y"}
IsLetter(c) == c \in Letters
IsLocalChar(c) == IsLetter(c) \/ IsDigit(c) \/ c \in {".", "_", "%", "+", "-"}
IsDomainChar(c) == IsLetter(c) \/ IsDigit(c) \/ c \in {".", "-"}

MatchesEmailPattern(v) ==
    /\ v.t = "string"
    /\ LET q == Spelling(v.s)
       IN  \E at \in 1..Len(q), dot \in 1..Len(q) :
              /\ q[at] = "@"
              /\ q[dot] = "."
              /\ at > 1
              /\ dot > at + 1
              /\ Len(q) - dot >= MinTldLen
              /\ \A i \in 1..(at - 1) : IsLocalChar(q[i])
              /\ \A i \in (at + 1)..(dot - 1) : IsDomainChar(q[i])
              /\ \A i \in (dot + 1)..Len(q) : IsLetter(q[i])

(***************************************************************************)
(* The data file and the two storage functions.                            *)
(*   file.exists: whether data/coaches.json exists                         *)
(*   file.data:   the JSON array it holds, a sequence of records           *)
(*     [id, name, email, category, rating, status, createdAt]              *)
(* A property that is absent from an object holds Undef here.              *)
(***************************************************************************)
NoFile == [exists |-> FALSE, data |-> <<>>]

\* JSON.stringify then JSON.parse of one coach object
JSONCoach(c) ==
    [c EXCEPT !.name = JSONValue(@), !.email = JSONValue(@),
              !.category = JSONValue(@), !.rating = JSONValue(@),
              !.status = JSONValue(@)]

JSONArray(coaches) == [i \in 1..Len(coaches) |-> JSONCoach(coaches[i])]

\* readCoaches: the parsed file, or [] when the file cannot be read
readCoaches(f) == IF f.exists THEN f.data ELSE <<>>

\* writeCoaches: the file now holds JSON.stringify(coaches)
writeCoaches(coaches) == [exists |-> TRUE, data |-> JSONArray(coaches)]

(***************************************************************************)
(* Responses: res.status(code).json(...)                                   *)
(*   body holds the records sent (one for a coach, all for the list)       *)
(***************************************************************************)
Response(code, error, message, body) ==
    [status |-> code, error |-> error, message |-> message, body |-> JSONArray(body)]

Reject(code, error) == Response(code, error, "", <<>>)

ErrRequired == "All fields are required"
ErrRating   == "Rating must be between 1 and 5"
ErrStatus   == "Status must be active or inactive"
ErrEmail    == "Email already exists"
ErrNotFound == "Coach not found"
MsgDeleted  == "Coach deleted successfully"

(***************************************************************************)
(* Request bodies: the five destructured fields; a field the body does not *)
(* carry is undefined.                                                     *)
(***************************************************************************)
Fields == {"name", "email", "category", "rating", "status"}
EmptyBody == [f \in Fields |-> Undef]

(***************************************************************************)
(* POST /coaches                                                           *)
(***************************************************************************)
\* faulty variant: the status is not checked
ValidateCreateNoStatus(body) ==
    IF \/ ~Truthy(body.name) \/ ~Truthy(body.email) \/ ~Truthy(body.category)
       \/ ~Truthy(body.rating) \/ ~Truthy(body.status)
    THEN ErrRequired
    ELSE IF LessThan(body.rating, MinRating) \/ GreaterThan(body.rating, MaxRating)
    THEN ErrRating
    ELSE ""

\* the checks made before the collection is read; "" when all pass
ValidateCreate(body) ==
    IF \/ ~Truthy(body.name) \/ ~Truthy(body.email) \/ ~Truthy(body.category)
       \/ ~Truthy(body.rating) \/ ~Truthy(body.status)
    THEN ErrRequired
    ELSE IF LessThan(body.rating, MinRating) \/ GreaterThan(body.rating, MaxRating)
    THEN ErrRating
    ELSE IF ~Includes(StatusValues, body.status)
    THEN ErrStatus
    ELSE ""

\* faulty variant: the duplicate check is left out
EmailExistsNever(coaches, email) == FALSE

\* coaches.some(c => c.email === email)
EmailExists(coaches, email) ==
    \E i \in 1..Len(coaches) : StrictEquals(coaches[i].email, email)

\* faulty variant: the id is not the generated one
NewCoachFixedId(body, uuid, now) ==
    [id |-> 1, name |-> body.name, email |-> body.email,
     category |-> body.category, rating |-> ToNumber(body.rating),
     status |-> body.status, createdAt |-> now]

\* the object literal of the new coach
NewCoach(body, uuid, now) ==
    [id |-> uuid, name |-> body.name, email |-> body.email,
     category |-> body.category, rating |-> ToNumber(body.rating),
     status |-> body.status, createdAt |-> now]

\* the whole handler run against file content f: its response and the file after
PostCoaches(body, f, uuid, now) ==
    LET err == ValidateCreate(body)
        coaches == readCoaches(f)
        newCoach == NewCoach(body, uuid, now)
    IN  IF err # "" THEN [resp |-> Reject(400, err), file |-> f]
        ELSE IF EmailExists(coaches, body.email)
        THEN [resp |-> Reject(400, ErrEmail), file |-> f]
        ELSE [resp |-> Response(201, "", "", <<newCoach>>),
              file |-> writeCoaches(Append(coaches, newCoach))]

(***************************************************************************)
(* GET /coaches and GET /coaches/:id                                       *)
(***************************************************************************)
\* coaches.findIndex(c => c.id === id), 1-based; 0 stands for -1
FindIndex(coaches, id) ==
    IF \E i \in 1..Len(coaches) : coaches[i].id = id
    THEN CHOOSE i \in 1..Len(coaches) :
            /\ coaches[i].id = id
            /\ \A j \in 1..(i - 1) : coaches[j].id # id
    ELSE 0

GetCoaches(f) == Response(200, "", "", readCoaches(f))

GetCoach(id, f) ==
    LET coaches == readCoaches(f)
        index == FindIndex(coaches, id)
    IN  IF index = 0 THEN Reject(404, ErrNotFound)
        ELSE Response(200, "", "", <<coaches[index]>>)

(***************************************************************************)
(* PUT /coaches/:id                                                        *)
(***************************************************************************)
\* faulty variant: the coach's own email counts as a duplicate
ValidateUpdateNoSelf(body, coaches, id) ==
    IF /\ body.rating # Undef
       /\ (LessThan(body.rating, MinRating) \/ GreaterThan(body.rating, MaxRating))
    THEN ErrRating
    ELSE IF Truthy(body.status) /\ ~Includes(StatusValues, body.status)
    THEN ErrStatus
    ELSE IF /\ Truthy(body.email)
            /\ \E i \in 1..Len(coaches) : StrictEquals(coaches[i].email, body.email)
    THEN ErrEmail
    ELSE ""

\* faulty variant: the new email is not compared with those of the others
ValidateUpdateAnyEmail(body, coaches, id) ==
    IF /\ body.rating # Undef
       /\ (LessThan(body.rating, MinRating) \/ GreaterThan(body.rating, MaxRating))
    THEN ErrRating
    ELSE IF Truthy(body.status) /\ ~Includes(StatusValues, body.status)
    THEN ErrStatus
    ELSE ""

\* the checks made on the body once the coach is found; "" when all pass
ValidateUpdate(body, coaches, id) ==
    IF /\ body.rating # Undef
       /\ (LessThan(body.rating, MinRating) \/ GreaterThan(body.rating, MaxRating))
    THEN ErrRating
    ELSE IF Truthy(body.status) /\ ~Includes(StatusValues, body.status)
    THEN ErrStatus
    ELSE IF /\ Truthy(body.email)
            /\ \E i \in 1..Len(coaches) :
                  /\ StrictEquals(coaches[i].email, body.email)
                  /\ coaches[i].id # id
    THEN ErrEmail
    ELSE ""

\* faulty variant: the body replaces the coach's fields, present or not
MergeCoachReplace(coach, body) ==
    [coach EXCEPT
       !.name     = body.name,
       !.email    = body.email,
       !.category = body.category,
       !.rating   = ToNumber(body.rating),
       !.status   = body.status]

\* faulty variant: the email is not spread into the coach
MergeCoachNoEmail(coach, body) ==
    [coach EXCEPT
       !.name     = IF Truthy(body.name) THEN body.name ELSE @,
       !.category = IF Truthy(body.category) THEN body.category ELSE @,
       !.rating   = IF body.rating # Undef THEN ToNumber(body.rating) ELSE @,
       !.status   = IF Truthy(body.status) THEN body.status ELSE @]

\* { ...coach, ...(name && {name}), ..., ...(rating !== undefined && {rating: Number(rating)}), ... }
MergeCoach(coach, body) ==
    [coach EXCEPT
       !.name     = IF Truthy(body.name) THEN body.name ELSE @,
       !.email    = IF Truthy(body.email) THEN body.email ELSE @,
       !.category = IF Truthy(body.category) THEN body.category ELSE @,
       !.rating   = IF body.rating # Undef THEN ToNumber(body.rating) ELSE @,
       !.status   = IF Truthy(body.status) THEN body.status ELSE @]

\* faulty variant: the merged collection is written before the body is checked
PutCoachWritesFirst(id, body, f) ==
    LET coaches == readCoaches(f)
        index == FindIndex(coaches, id)
        err == ValidateUpdate(body, coaches, id)
        updated == [coaches EXCEPT ![index] = MergeCoach(@, body)]
    IN  IF index = 0 THEN [resp |-> Reject(404, ErrNotFound), file |-> f]
        ELSE IF err # "" THEN [resp |-> Reject(400, err), file |-> writeCoaches(updated)]
        ELSE [resp |-> Response(200, "", "", <<updated[index]>>),
              file |-> writeCoaches(updated)]

PutCoach(id, body, f) ==
    LET coaches == readCoaches(f)
        index == FindIndex(coaches, id)
        err == ValidateUpdate(body, coaches, id)
        updated == [coaches EXCEPT ![index] = MergeCoach(@, body)]
    IN  IF index = 0 THEN [resp |-> Reject(404, ErrNotFound), file |-> f]
        ELSE IF err # "" THEN [resp |-> Reject(400, err), file |-> f]
        ELSE [resp |-> Response(200, "", "", <<updated[index]>>),
              file |-> writeCoaches(updated)]

(***************************************************************************)
(* DELETE /coaches/:id                                                     *)
(***************************************************************************)
\* faulty variant: the first coach is removed, whatever its id
FilterOutFirst(coaches, id) == IF coaches = <<>> THEN <<>> ELSE Tail(coaches)

\* coaches.filter(c => c.id !== id)
RECURSIVE FilterOut(_, _)
FilterOut(coaches, id) ==
    IF coaches = <<>> THEN <<>>
    ELSE IF Head(coaches).id # id
         THEN <<Head(coaches)>> \o FilterOut(Tail(coaches), id)
         ELSE FilterOut(Tail(coaches), id)

\* faulty variant: the unfiltered array is written back
DeleteCoachWritesAll(id, f) ==
    LET coaches == readCoaches(f)
        filteredCoaches == FilterOut(coaches, id)
    IN  IF Len(coaches) = Len(filteredCoaches)
        THEN [resp |-> Reject(404, ErrNotFound), file |-> f]
        ELSE [resp |-> Response(200, "", MsgDeleted, <<>>),
              file |-> writeCoaches(coaches)]

DeleteCoach(id, f) ==
    LET coaches == readCoaches(f)
        filteredCoaches == FilterOut(coaches, id)
    IN  IF Len(coaches) = Len(filteredCoaches)
        THEN [resp |-> Reject(404, ErrNotFound), file |-> f]
        ELSE [resp |-> Response(200, "", MsgDeleted, <<>>),
              file |-> writeCoaches(filteredCoaches)]

(***************************************************************************)
(* Requests the clients send.                                              *)
(***************************************************************************)
Ann  == Str("Ann")
Bob  == Str("Bob")
Yoga == Str("Yoga")
Golf == Str("Golf")
Empty == Str("")
Pending == Str("pending")
EmailLower == Str("a@x.co")
EmailUpper == Str("A@x.co")
NotAnEmail == Str("not-an-email")
NumericString == Str("3")
NonNumericString == Str("abc")

\* the values a request may carry in each field (Undef: the field is absent)
NameValues     == {Undef, Null, Empty, Ann, Bob}
EmailValues    == {Undef, Empty, EmailLower, EmailUpper, NotAnEmail}
CategoryValues == {Undef, Empty, Yoga, Golf}
RatingValues   == {Undef, Null, Num(0), Num(1), Num(5), Num(6),
                   NumericString, NonNumericString}
StatusInputs   == {Undef, Empty, Active, Inactive, Pending}

\* two complete, valid bodies
BodyA == [name |-> Ann, email |-> EmailLower, category |-> Yoga,
          rating |-> Num(1), status |-> Active]
BodyB == [name |-> Bob, email |-> EmailUpper, category |-> Golf,
          rating |-> Num(5), status |-> Inactive]

\* b with field f replaced by each value of V
With(b, f, V) == {[b EXCEPT ![f] = v] : v \in V}

\* b with one field replaced by any value of that field; the address stays one
\* of the two well-formed ones, or is empty or absent
OneFieldChanged(b) ==
    With(b, "name", NameValues) \cup With(b, "category", CategoryValues)
      \cup With(b, "rating", RatingValues) \cup With(b, "status", StatusInputs)
      \cup With(b, "email", EmailValues \ {NotAnEmail})

\* POST bodies: a complete body, or one with a single field wrong or absent
CreateBodies == OneFieldChanged(BodyA) \cup OneFieldChanged(BodyB)
\* PUT bodies: no field, a single field, or a complete body
UpdateBodies == OneFieldChanged(EmptyBody) \cup {BodyB}

\* requests that differ in the e-mail address only
EmailCreateBodies ==
    With(BodyA, "email", EmailValues) \cup With(BodyB, "email", EmailValues)
EmailUpdateBodies == With(EmptyBody, "email", EmailValues) \cup {BodyA, BodyB}

\* ids a request may name: every id the generator hands out and one it never does
RequestIds == 1..(MaxCreates + 1)

(***************************************************************************)
(* State.                                                                  *)
(*   file     the data file                                                *)
(*   nextId   the next value of the id generator (uuidv4: always fresh)    *)
(*   clock    the time new Date() returns at the next Create               *)
(*   req      the request being answered (op "none": the server is idle)   *)
(*   resp     the response sent to it                                      *)
(*   acked    the abstract store: the records the clients were told exist, *)
(*            in order of creation, as last acknowledged                   *)
(*   deleted  the ids whose Delete was acknowledged with 200               *)
(***************************************************************************)
VARIABLES file, nextId, clock, req, resp, acked, deleted
\* requests in flight, one per client, each between two of its awaits
VARIABLES slots, version, started, torn, deletedAt, stale

\* the state of the requests that overlap in time
cvars == <<slots, version, started, torn, deletedAt, stale>>
vars == <<file, nextId, clock, req, resp, acked, deleted, cvars>>

Request(op, id, body) == [op |-> op, id |-> id, body |-> body]

NoRequest == Request("none", 0, EmptyBody)
NoResponse == Reject(0, "")
Idle == req = NoRequest

\* clients whose requests may overlap, and requests they send in all
MaxClients == 2
MaxRequests == 3
Clients == 1..MaxClients

\* a client with no request in flight
IdleSlot ==
    [pc |-> "idle", op |-> "none", id |-> 0, body |-> EmptyBody,
     snap |-> <<>>, prior |-> <<>>, pending |-> <<>>,
     answer |-> NoResponse, resp |-> NoResponse,
     readAt |-> 0, wroteAt |-> 0, readFailed |-> FALSE, writeFailed |-> FALSE]

Init ==
    /\ slots = [p \in Clients |-> IdleSlot]
    /\ version = 0
    /\ started = 0
    /\ torn = FALSE
    /\ deletedAt = [id \in RequestIds |-> 0]
    /\ stale = {}
    /\ file = NoFile
    /\ nextId = 1
    /\ clock = 1
    /\ req = NoRequest
    /\ resp = NoResponse
    /\ acked = <<>>
    /\ deleted = {}

\* the abstract insertion-ordered map after a request was answered with r
AckCreate(store, r) == IF r.status = 201 THEN Append(store, r.body[1]) ELSE store
AckUpdate(store, id, r) ==
    IF r.status = 200
    THEN [i \in 1..Len(store) |-> IF store[i].id = id THEN r.body[1] ELSE store[i]]
    ELSE store
AckDelete(store, id, r) == IF r.status = 200 THEN FilterOut(store, id) ELSE store

\* POST /coaches
Create(Bodies) ==
    \E body \in Bodies :
        LET r == PostCoaches(body, file, nextId, clock)
            created == r.resp.status = 201
        IN  /\ Idle
            /\ created => nextId <= MaxCreates
            /\ file' = r.file
            /\ nextId' = IF created THEN nextId + 1 ELSE nextId
            /\ clock' = IF created THEN clock + 1 ELSE clock
            /\ req' = Request("create", 0, body)
            /\ resp' = r.resp
            /\ acked' = AckCreate(acked, r.resp)
            /\ UNCHANGED deleted
            /\ UNCHANGED cvars

\* PUT /coaches/:id
Update(Bodies) ==
    \E id \in RequestIds, body \in Bodies :
        LET r == PutCoach(id, body, file)
        IN  /\ Idle
            /\ file' = r.file
            /\ req' = Request("update", id, body)
            /\ resp' = r.resp
            /\ acked' = AckUpdate(acked, id, r.resp)
            /\ UNCHANGED <<nextId, clock, deleted>>
            /\ UNCHANGED cvars

\* DELETE /coaches/:id
Delete ==
    \E id \in RequestIds :
        LET r == DeleteCoach(id, file)
        IN  /\ Idle
            /\ file' = r.file
            /\ req' = Request("delete", id, EmptyBody)
            /\ resp' = r.resp
            /\ acked' = AckDelete(acked, id, r.resp)
            /\ deleted' = IF r.resp.status = 200 THEN deleted \cup {id} ELSE deleted
            /\ UNCHANGED <<nextId, clock>>
            /\ UNCHANGED cvars

\* GET /coaches/:id
Get ==
    \E id \in RequestIds :
        /\ Idle
        /\ req' = Request("get", id, EmptyBody)
        /\ resp' = GetCoach(id, file)
        /\ UNCHANGED <<file, nextId, clock, acked, deleted, cvars>>

\* GET /coaches
List ==
    /\ Idle
    /\ req' = Request("list", 0, EmptyBody)
    /\ resp' = GetCoaches(file)
    /\ UNCHANGED <<file, nextId, clock, acked, deleted, cvars>>

\* the handler has sent its response and returned: the next request may start
Return ==
    /\ ~Idle
    /\ req' = NoRequest
    /\ resp' = NoResponse
    /\ UNCHANGED <<file, nextId, clock, acked, deleted, cvars>>

\* requests are handled one at a time, each to completion
Next ==
    Create(CreateBodies) \/ Update(UpdateBodies) \/ Delete \/ Get \/ List \/ Return

Spec == Init /\ [][Next]_vars

\* the same server, its clients varying the e-mail address of their requests
NextEmail ==
    Create(EmailCreateBodies) \/ Update(EmailUpdateBodies) \/ Delete \/ Get \/ List
      \/ Return

SpecEmail == Init /\ [][NextEmail]_vars

(***************************************************************************)
(* Requests that overlap.  Node runs each handler up to its next await;    *)
(* between the awaits of one request the steps of others may run.  A       *)
(* handler awaits readCoaches, then writeCoaches, then answers.            *)
(***************************************************************************)
ErrCreate == "Failed to create coach"
ErrUpdate == "Failed to update coach"
ErrDelete == "Failed to delete coach"

\* the answer of the catch block of the handler of op
Failed(op) ==
    Reject(500, CASE op = "create" -> ErrCreate
                  [] op = "update" -> ErrUpdate
                  [] OTHER -> ErrDelete)

Mutating(op) == op \in {"create", "update", "delete"}

\* what readCoaches makes of the file: any error of fs.readFile or of
\* JSON.parse is caught and answered like a missing file
Seen(f, ok) == IF ok THEN f ELSE NoFile

\* the file once fs.writeFile opened it and wrote nothing yet
Truncated == [exists |-> TRUE, data |-> <<>>]

\* faulty variant: the write keeps the records the file holds and adds the
\* records of the new content that the file lacks
FileAfterWriteKeeps(f, content) ==
    [exists |-> TRUE,
     data |-> f.data \o SelectSeq(content,
                  LAMBDA c : \A i \in 1..Len(f.data) : f.data[i].id # c.id)]

\* the file once fs.writeFile completed: the new content replaces the old
FileAfterWrite(f, content) == [exists |-> TRUE, data |-> content]

\* the handler of slot s run on the file f that its read has seen
Handle(s, f) ==
    CASE s.op = "create" -> PostCoaches(s.body, f, nextId, clock)
      [] s.op = "update" -> PutCoach(s.id, s.body, f)
      [] s.op = "delete" -> DeleteCoach(s.id, f)
      [] s.op = "get"    -> [resp |-> GetCoach(s.id, f), file |-> f]
      [] OTHER           -> [resp |-> GetCoaches(f), file |-> f]

\* the slot of a request that has arrived
Arrived(op, id, body) ==
    [IdleSlot EXCEPT !.pc = "reading", !.op = op, !.id = id, !.body = body]

\* POST /coaches: the body is checked before the first await
BeginCreate(P, Bodies) ==
    \E p \in P, body \in Bodies :
        LET err == ValidateCreate(body)
        IN  /\ slots[p].pc = "idle"
            /\ started < MaxRequests
            /\ started' = started + 1
            /\ slots' = [slots EXCEPT ![p] =
                  IF err # ""
                  THEN [IdleSlot EXCEPT !.pc = "done", !.op = "create",
                                        !.body = body, !.resp = Reject(400, err)]
                  ELSE Arrived("create", 0, body)]
            /\ UNCHANGED <<file, nextId, clock, req, resp, acked, deleted,
                           version, torn, deletedAt, stale>>

\* PUT /coaches/:id
BeginUpdate(P, Bodies) ==
    \E p \in P, id \in RequestIds, body \in Bodies :
        /\ slots[p].pc = "idle"
        /\ started < MaxRequests
        /\ started' = started + 1
        /\ slots' = [slots EXCEPT ![p] = Arrived("update", id, body)]
        /\ UNCHANGED <<file, nextId, clock, req, resp, acked, deleted,
                       version, torn, deletedAt, stale>>

\* DELETE /coaches/:id
BeginDelete(P) ==
    \E p \in P, id \in RequestIds :
        /\ slots[p].pc = "idle"
        /\ started < MaxRequests
        /\ started' = started + 1
        /\ slots' = [slots EXCEPT ![p] = Arrived("delete", id, EmptyBody)]
        /\ UNCHANGED <<file, nextId, clock, req, resp, acked, deleted,
                       version, torn, deletedAt, stale>>

\* GET /coaches/:id
BeginGet(P) ==
    \E p \in P, id \in RequestIds :
        /\ slots[p].pc = "idle"
        /\ started < MaxRequests
        /\ started' = started + 1
        /\ slots' = [slots EXCEPT ![p] = Arrived("get", id, EmptyBody)]
        /\ UNCHANGED <<file, nextId, clock, req, resp, acked, deleted,
                       version, torn, deletedAt, stale>>

\* GET /coaches
BeginList(P) ==
    \E p \in P :
        /\ slots[p].pc = "idle"
        /\ started < MaxRequests
        /\ started' = started + 1
        /\ slots' = [slots EXCEPT ![p] = Arrived("list", 0, EmptyBody)]
        /\ UNCHANGED <<file, nextId, clock, req, resp, acked, deleted,
                       version, torn, deletedAt, stale>>

\* await readCoaches() returns, and the handler runs on to its writeCoaches
\* call or to its answer.  The read fails when ok is false or when the file
\* is being written.
Read(P, Outcomes) ==
    \E p \in P, ok \in Outcomes :
        LET s == slots[p]
            seen == Seen(file, ok /\ ~torn)
            r == Handle(s, seen)
            writes == Mutating(s.op) /\ r.resp.status \in {200, 201}
            creates == s.op = "create" /\ writes
        IN  /\ s.pc = "reading"
            /\ ~ok => file.exists
            /\ creates => nextId <= MaxCreates
            /\ slots' = [slots EXCEPT ![p] =
                  [s EXCEPT !.pc = IF writes THEN "writing" ELSE "done",
                            !.snap = readCoaches(seen),
                            !.pending = IF writes THEN r.file.data ELSE <<>>,
                            !.answer = IF writes THEN r.resp ELSE NoResponse,
                            !.resp = IF writes THEN NoResponse ELSE r.resp,
                            !.readAt = version,
                            !.readFailed = file.exists /\ ~(ok /\ ~torn)]]
            /\ nextId' = IF creates THEN nextId + 1 ELSE nextId
            /\ clock' = IF creates THEN clock + 1 ELSE clock
            /\ UNCHANGED <<file, req, resp, acked, deleted,
                           version, started, torn, deletedAt, stale>>

\* the bookkeeping of a completed write of client p
Written(p) ==
    LET s == slots[p]
        deletes == s.op = "delete"
        others == IF deletes THEN RequestIds \ {s.id} ELSE RequestIds
    IN  /\ version' = version + 1
        /\ torn' = FALSE
        /\ slots' = [slots EXCEPT ![p] =
              [s EXCEPT !.pc = "done", !.resp = s.answer, !.wroteAt = version + 1]]
        /\ deleted' = IF deletes THEN deleted \cup {s.id} ELSE deleted
        /\ deletedAt' = IF deletes THEN [deletedAt EXCEPT ![s.id] = version + 1]
                        ELSE deletedAt
        /\ stale' = (IF deletes THEN stale \ {s.id} ELSE stale)
                      \cup {i \in others : deletedAt[i] > 0 /\ s.readAt < deletedAt[i]}
        /\ UNCHANGED <<nextId, clock, req, resp, acked, started>>

\* await writeCoaches() returns, the write having happened in one step, and
\* the handler answers
Write(P) ==
    \E p \in P :
        /\ slots[p].pc = "writing"
        /\ \A q \in Clients : slots[q].pc # "open"
        /\ file' = FileAfterWrite(file, slots[p].pending)
        /\ Written(p)

\* fs.writeFile opens the file, which truncates it; its data follow later
WriteOpen(P) ==
    \E p \in P :
        /\ slots[p].pc = "writing"
        /\ \A q \in Clients : slots[q].pc # "open"
        /\ file' = Truncated
        /\ torn' = TRUE
        /\ slots' = [slots EXCEPT ![p] = [@ EXCEPT !.pc = "open", !.prior = file.data]]
        /\ UNCHANGED <<nextId, clock, req, resp, acked, deleted,
                       version, started, deletedAt, stale>>

\* the data of the opened file are written, and the handler answers
WriteData(P) ==
    \E p \in P :
        /\ slots[p].pc = "open"
        /\ file' = FileAfterWrite(file, slots[p].pending)
        /\ Written(p)

\* fs.writeFile rejects, before or after it truncated the file: the catch
\* block of the handler answers 500
WriteFail(P) ==
    \E p \in P, truncated \in BOOLEAN :
        /\ slots[p].pc = "writing"
        /\ truncated => file.exists
        /\ file' = IF truncated THEN Truncated ELSE file
        /\ torn' = (torn \/ truncated)
        /\ slots' = [slots EXCEPT ![p] =
              [@ EXCEPT !.pc = "done", !.resp = Failed(slots[p].op), !.writeFailed = TRUE]]
        /\ UNCHANGED <<nextId, clock, req, resp, acked, deleted,
                       version, started, deletedAt, stale>>

\* the answer is delivered and the client may send its next request
Finish(P) ==
    \E p \in P :
        /\ slots[p].pc = "done"
        /\ slots' = [slots EXCEPT ![p] = IdleSlot]
        /\ UNCHANGED <<file, nextId, clock, req, resp, acked, deleted,
                       version, started, torn, deletedAt, stale>>

\* what the overlapping clients send: two complete bodies to create, a new
\* address to update
RaceCreateBodies == {BodyA, BodyB}
RaceUpdateBodies == With(EmptyBody, "email", {EmailLower, EmailUpper})

\* overlapping requests, every file read and every file write one step
NextRace ==
    \/ BeginCreate(Clients, RaceCreateBodies)
    \/ BeginUpdate(Clients, RaceUpdateBodies)
    \/ BeginDelete(Clients)
    \/ Read(Clients, {TRUE})
    \/ Write(Clients)
    \/ Finish(Clients)

SpecRace == Init /\ [][NextRace]_vars

\* overlapping requests, a file write being two steps
NextTorn ==
    \/ BeginCreate(Clients, RaceCreateBodies)
    \/ BeginDelete(Clients)
    \/ BeginList(Clients)
    \/ BeginGet(Clients)
    \/ Read(Clients, {TRUE})
    \/ WriteOpen(Clients)
    \/ WriteData(Clients)
    \/ Finish(Clients)

SpecTorn == Init /\ [][NextTorn]_vars

\* one request at a time, the reads and writes of the file failing at will
NextFail ==
    \/ BeginCreate({1}, RaceCreateBodies)
    \/ BeginUpdate({1}, RaceUpdateBodies)
    \/ BeginDelete({1})
    \/ BeginGet({1})
    \/ BeginList({1})
    \/ Read({1}, BOOLEAN)
    \/ Write({1})
    \/ WriteFail({1})
    \/ Finish({1})

SpecFail == Init /\ [][NextFail]_vars

(***************************************************************************)
(* Properties.                                                             *)
(***************************************************************************)
\* the ids of the records the file holds
PersistedIds(f) == {f.data[i].id : i \in 1..Len(f.data)}

\* the emails of the records of f are pairwise distinct
DistinctEmails(f) ==
    \A i, j \in 1..Len(f.data) : i # j => f.data[i].email # f.data[j].email

\* C1: the persisted collection never holds two records with the same email
\* (exact, case-sensitive comparison), and a Create whose email a record
\* already holds is answered 400 and adds nothing.
C1_EmailsUnique ==
    [][/\ DistinctEmails(file')
       /\ (/\ req'.op = "create"
           /\ \E i \in 1..Len(file.data) : file.data[i].email = req'.body.email)
          => (resp'.status = 400 /\ file' = file)]_vars

\* a duplicate Create was refused while the file holds two records whose
\* addresses differ in case only
C1_Witness ==
    /\ req.op = "create"
    /\ resp.status = 400
    /\ resp.error = ErrEmail
    /\ Len(file.data) = 2
    /\ {file.data[1].email, file.data[2].email} = {EmailLower, EmailUpper}

\* C2: List returns exactly the records created and not since deleted, each as
\* last acknowledged (by its Create or its latest Update), in order of
\* creation: the file refines the abstract insertion-ordered store.
C2_ListRefinesStore ==
    /\ GetCoaches(file).status = 200
    /\ GetCoaches(file).body = acked
    /\ \A i, j \in 1..Len(acked) : i < j => acked[i].id < acked[j].id
    /\ req.op = "list" => (resp.status = 200 /\ resp.body = acked)

\* a List after two creates, an update of more than one field and a delete
C2_Witness ==
    /\ req.op = "list"
    /\ deleted # {}
    /\ Len(resp.body) = 1
    /\ resp.body[1].name = Ann
    /\ resp.body[1].category = Golf
    /\ resp.body[1].rating = Num(3)

\* a value that is neither a number nor a string spelling one
NonNumeric(v) ==
    /\ v.t # "number"
    /\ v.t = "string" => (v.s = "" \/ StringToNumber(v.s).t = "nan")

\* C3: a Create whose rating is 0, 6 or non-numeric is answered 400 and adds
\* no record.
C3_BadRatingRejected ==
    [][(/\ req'.op = "create"
        /\ (req'.body.rating \in {Num(0), Num(6)} \/ NonNumeric(req'.body.rating)))
       => (resp'.status = 400 /\ file' = file)]_vars

\* C4: a Create whose email does not match the e-mail pattern is answered 400
\* and adds no record, so every persisted email is well-formed.
C4_MalformedEmailRejected ==
    [][/\ (req'.op = "create" /\ ~MatchesEmailPattern(req'.body.email))
          => (resp'.status = 400 /\ file' = file)
       /\ \A i \in 1..Len(file'.data) : MatchesEmailPattern(file'.data[i].email)]_vars

\* a rating as the data model allows it
ValidRating(v) == v.t = "number" /\ MinRating <= v.n /\ v.n <= MaxRating

\* C5: every persisted rating is a number from 1 to 5, and an Update that
\* provides a rating that is not is answered 400.
C5_RatingInRange ==
    [][/\ \A i \in 1..Len(file'.data) : ValidRating(file'.data[i].rating)
       /\ (/\ req'.op = "update"
           /\ req'.id \in PersistedIds(file)
           /\ req'.body.rating # Undef
           /\ ~ValidRating(req'.body.rating))
          => resp'.status = 400]_vars

\* the step answers a PUT with 200
UpdateOk == req'.op = "update" /\ resp'.status = 200

\* the position in f of the record with this id
IndexOf(f, id) == CHOOSE i \in 1..Len(f.data) : f.data[i].id = id

\* C6: a Create whose status is neither "active" nor "inactive", or that lacks
\* one of the five fields, is answered 400 and adds no record; every persisted
\* record has the five fields and a status of "active" or "inactive".
C6_StatusAndPresence ==
    [][/\ (/\ req'.op = "create"
           /\ (req'.body.status \notin StatusValues
                 \/ \E f \in Fields : req'.body[f] = Undef))
          => (resp'.status = 400 /\ file' = file)
       /\ \A i \in 1..Len(file'.data) :
             /\ \A f \in Fields : file'.data[i][f] # Undef
             /\ file'.data[i].status \in StatusValues]_vars

\* a Create with status "pending" was refused while a record is stored
C6_Witness ==
    /\ req.op = "create"
    /\ req.body.status = Pending
    /\ \A f \in Fields \ {"status"} : Truthy(req.body[f])
    /\ resp.status = 400
    /\ resp.error = ErrStatus
    /\ Len(file.data) >= 1

\* C7: a successful Update leaves the collection's length and order, every
\* other record, and the target's id, createdAt and omitted fields as they were.
C7_UpdateFrame ==
    [][UpdateOk =>
        /\ Len(file'.data) = Len(file.data)
        /\ \A i \in 1..Len(file.data) :
              /\ file'.data[i].id = file.data[i].id
              /\ file'.data[i].createdAt = file.data[i].createdAt
              /\ file.data[i].id # req'.id => file'.data[i] = file.data[i]
              /\ \A f \in Fields :
                    req'.body[f] = Undef => file'.data[i][f] = file.data[i][f]]_vars

\* {status: "inactive"} was accepted for the second of two records, which was
\* active before and keeps the name it got at creation
C7_Witness ==
    /\ req.op = "update"
    /\ req.id = 2
    /\ req.body = [EmptyBody EXCEPT !.status = Inactive]
    /\ resp.status = 200
    /\ Len(file.data) = 2
    /\ file.data[2].status = Inactive
    /\ file.data[2].name = Ann
    /\ file.data[1].name = Bob

\* C8 as stated: after a successful Update every field present in the body
\* has exactly the provided value in the returned and in the persisted record.
C8_PresentFieldsStored ==
    [][UpdateOk =>
        \A f \in Fields :
            req'.body[f] # Undef =>
                /\ resp'.body[1][f] = req'.body[f]
                /\ file'.data[IndexOf(file', req'.id)][f] = req'.body[f]]_vars

\* C8 as the code has it: a present name, email, category or status is stored
\* as provided when it is truthy and is ignored (the prior value stays) when
\* it is falsy; a present rating is stored as Number(rating), NaN as null.
C8_TruthyFieldsStored ==
    [][UpdateOk =>
        LET old == file.data[IndexOf(file, req'.id)]
            new == file'.data[IndexOf(file', req'.id)]
        IN  /\ resp'.body = <<new>>
            /\ \A f \in Fields \ {"rating"} :
                  /\ Truthy(req'.body[f]) => new[f] = req'.body[f]
                  /\ (req'.body[f] # Undef /\ ~Truthy(req'.body[f])) => new[f] = old[f]
            /\ req'.body.rating # Undef =>
                  new.rating = JSONValue(ToNumber(req'.body.rating))]_vars

\* {name: ""} was accepted and the stored name is still non-empty
C8_Witness ==
    /\ req.op = "update"
    /\ req.body = [EmptyBody EXCEPT !.name = Empty]
    /\ resp.status = 200
    /\ resp.body[1].name \in {Ann, Bob}

\* C9: an Update whose email another record holds is answered 400 and changes
\* nothing; one whose email is the target's own succeeds; one without an email
\* is never refused as a duplicate.
C9_UpdateEmailCheck ==
    [][(req'.op = "update" /\ req'.id \in PersistedIds(file)) =>
        LET e == req'.body.email
            target == file.data[IndexOf(file, req'.id)]
        IN  /\ (\E i \in 1..Len(file.data) :
                   file.data[i].id # req'.id /\ file.data[i].email = e)
               => (resp'.status = 400 /\ resp'.error = ErrEmail /\ file' = file)
            /\ (e = target.email /\ req'.body = [EmptyBody EXCEPT !.email = e])
               => resp'.status = 200
            /\ e = Undef => resp'.error # ErrEmail]_vars

\* an Update to the other record's address was refused
C9_Witness ==
    /\ req.op = "update"
    /\ req.id = 2
    /\ req.body = [EmptyBody EXCEPT !.email = EmailLower]
    /\ resp.status = 400
    /\ resp.error = ErrEmail
    /\ Len(file.data) = 2
    /\ file.data[1].email = EmailLower

\* C10: Delete of an id not in the collection is answered 404; Delete of an id
\* in it is answered 200 and removes that record and no other; from then on
\* Get, Update and Delete of the id are answered 404 and the id is not listed.
C10_DeleteIsFinal ==
    [][/\ req'.op = "delete" =>
            IF req'.id \in PersistedIds(file)
            THEN LET k == IndexOf(file, req'.id)
                 IN  /\ resp'.status = 200
                     /\ file'.data = [i \in 1..(Len(file.data) - 1) |->
                                        IF i < k THEN file.data[i] ELSE file.data[i + 1]]
            ELSE resp'.status = 404 /\ file' = file
       /\ \A id \in deleted :
             /\ id \notin PersistedIds(file')
             /\ (req'.op \in {"get", "update", "delete"} /\ req'.id = id)
                => resp'.status = 404
             /\ req'.op = "list" =>
                   \A i \in 1..Len(resp'.body) : resp'.body[i].id # id]_vars

\* a Get of a deleted id was answered 404 after a later Create
C10_Witness ==
    /\ req.op = "get"
    /\ req.id \in deleted
    /\ resp.status = 404
    /\ Len(file.data) >= 1
    /\ \E i \in 1..Len(file.data) : file.data[i].id > req.id

\* C11: a Create, Update or Delete that is answered 400 or 404 leaves the
\* file exactly as it was.
C11_RejectedLeavesFile ==
    [][(/\ req'.op \in {"create", "update", "delete"}
        /\ resp'.status \in {400, 404})
       => file' = file]_vars

\* an Update with a rating out of range was refused while two records are stored
C11_Witness ==
    /\ req.op = "update"
    /\ req.body.rating = Num(6)
    /\ resp.status = 400
    /\ resp.error = ErrRating
    /\ Len(file.data) = 2

\* clients p and q each were answered 201 to a Create, their emails distinct,
\* each having read the file before the other wrote it, and the write of q
\* came after that of p
BothReadFirst(p, q) ==
    /\ p # q
    /\ slots[p].body.email # slots[q].body.email
    /\ slots[p].op = "create" /\ slots[p].resp.status = 201
    /\ slots[q].op = "create" /\ slots[q].resp.status = 201
    /\ slots[p].readAt < slots[q].wroteAt
    /\ slots[q].readAt < slots[p].wroteAt
    /\ slots[p].wroteAt < slots[q].wroteAt

\* C12: requests are not serialised.  Two Creates with distinct valid emails
\* can both read before either writes and both be answered 201; the file
\* then holds the record of the later write and not that of the earlier.
C12_LostUpdate ==
    \A p, q \in Clients :
        (BothReadFirst(p, q) /\ version = slots[q].wroteAt)
        => /\ slots[q].resp.body[1].id \in PersistedIds(file)
           /\ slots[p].resp.body[1].id \notin PersistedIds(file)
           /\ file.data = Append(slots[q].snap, slots[q].resp.body[1])

\* both Creates were answered 201 on an empty store, and the file holds the
\* one record of the later write
C12_Witness ==
    \E p, q \in Clients :
        /\ BothReadFirst(p, q)
        /\ version = 2
        /\ slots[p].snap = <<>> /\ slots[q].snap = <<>>
        /\ file.data = slots[q].resp.body

\* C13: a write replaces the content of the file atomically as other requests
\* see it: a readCoaches that runs while the writeCoaches of another request
\* is in progress returns the whole content from before that write or the
\* whole content from after it.
C13_ReadsSeeWholeContent ==
    [][\A p, q \in Clients :
         (/\ slots[p].pc = "reading" /\ slots'[p].pc # "reading"
          /\ slots[q].pc = "open")
         => slots'[p].snap \in {slots[q].prior, slots[q].pending}]_vars

\* C14: a request one of whose reads or writes of the existing file failed is
\* answered 500, never with a success.
C14_FailureAnswered500 ==
    \A p \in Clients :
        (/\ slots[p].pc = "done"
         /\ slots[p].readFailed \/ slots[p].writeFailed)
        => slots[p].resp.status = 500

\* the ids of the records acknowledged so far, those since deleted included
AckedIds == {acked[i].id : i \in 1..Len(acked)} \cup deleted

\* C15: a Create answered 201 returns a record with createdAt set to the
\* time of creation and an id that no record created earlier has, deleted
\* records included; the ids of the file stay pairwise distinct.
C15_FreshIds ==
    [][(req'.op = "create" /\ resp'.status = 201)
       => /\ resp'.body[1].createdAt = clock
          /\ resp'.body[1].id \notin AckedIds \cup PersistedIds(file)
          /\ \A i, j \in 1..Len(file'.data) :
                i # j => file'.data[i].id # file'.data[j].id]_vars

\* a Create was answered 201 after the record with id 1 had been deleted, and
\* the new record has id 2
C15_Witness ==
    /\ req.op = "create"
    /\ resp.status = 201
    /\ deleted = {1}
    /\ resp.body[1].id = 2
    /\ resp.body[1].createdAt = 2
    /\ PersistedIds(file) = {2}

\* the collection the handler of this step hands to writeCoaches
Handed ==
    LET coaches == readCoaches(file)
    IN  IF req'.op = "create"
        THEN Append(coaches, NewCoach(req'.body, nextId, clock))
        ELSE [coaches EXCEPT ![FindIndex(coaches, req'.id)] = MergeCoach(@, req'.body)]

\* the step answers a POST with 201 or a PUT with 200
Accepted ==
    \/ req'.op = "create" /\ resp'.status = 201
    \/ req'.op = "update" /\ resp'.status = 200

\* C16: a collection that an accepted Create or Update produces is read back
\* from the file as it was written (ids, field values, rating included, and
\* order), and the record the request wrote is read back as the response
\* returned it.
C16_RoundTrip ==
    [][Accepted
       => /\ file' = writeCoaches(Handed)
          /\ readCoaches(file') = Handed
          /\ \E i \in 1..Len(file'.data) : readCoaches(file')[i] = resp'.body[1]]_vars

\* C17: every file read and every file write being one step, whatever the
\* interleaving of the reads and writes of overlapping Creates, Updates and
\* Deletes, every content written has pairwise distinct emails: each is made
\* from one snapshot that had them distinct and was checked against the
\* request.
C17_RaceKeepsEmailsDistinct ==
    /\ DistinctEmails(file)
    /\ \A p \in Clients :
          /\ DistinctEmails([exists |-> TRUE, data |-> slots[p].snap])
          /\ DistinctEmails([exists |-> TRUE, data |-> slots[p].pending])

\* a Create and an Update of another record to the same email were both
\* answered, the Create having written after the Update from a snapshot read
\* before it, and the file holds two records
C17_Witness ==
    \E p, q \in Clients :
        /\ slots[p].op = "create" /\ slots[p].resp.status = 201
        /\ slots[q].op = "update" /\ slots[q].resp.status = 200
        /\ slots[q].body.email = slots[p].body.email
        /\ slots[p].readAt < slots[q].wroteAt
        /\ slots[q].wroteAt < slots[p].wroteAt
        /\ Len(file.data) = 2

\* C18 as stated: once a Delete of an id was answered 200 the record with
\* that id is never again in the file, even when a request that read before
\* the write of the Delete writes after it.
C18_DeletedStaysGone ==
    \A id \in deleted : id \notin PersistedIds(file)

\* C18: once a Delete of an id was answered 200, the record with that id is
\* in the file again only if a request that read the file before the write
\* of the Delete has written after it.
C18_DeletedGoneUnlessStaleWrite ==
    \A id \in deleted : id \in PersistedIds(file) => id \in stale

\* the Delete of a record was answered 200, a request that read after the
\* write of the Delete has written since, and the record is not in the file
C18_Witness ==
    \E id \in deleted, p \in Clients :
        /\ id \notin stale
        /\ slots[p].readAt >= deletedAt[id]
        /\ slots[p].wroteAt > deletedAt[id]
        /\ file.data # <<>>
        /\ id \notin PersistedIds(file)

\* C19: requests running one at a time and reads of the file free to fail, a
\* Create answered 201 removes nothing: the file after it holds every record
\* it held before, in order, followed by the new record.
C19_CreateKeepsRecords ==
    [][\A p \in Clients :
         (/\ slots[p].op = "create"
          /\ slots[p].pc = "writing"
          /\ slots'[p].resp.status = 201)
         => file'.data = Append(file.data, slots'[p].resp.body[1])]_vars

=============================================================================
